---- MODULE Spec2Model ----
(***************************************************************************)
(* Model of kimchi's in-circuit Poseidon duplex sponge                     *)
(* (src/kimchi/src/snarky/poseidon.rs) and of the evaluation-domain        *)
(* factory (src/kimchi/src/circuits/domains.rs).                           *)
(***************************************************************************)
EXTENDS Integers, Sequences, FiniteSets, TLC

VARIABLES
    rev_queue,   \* DuplexState.rev_queue : Vec<FieldVar>
    absorbing,   \* DuplexState.absorbing : bool
    squeezed,    \* DuplexState.squeezed  : Option<FieldVar>
    state,       \* DuplexState.state     : [FieldVar; 3]
    sys,         \* the RunState the sponge is driven with
    calls,       \* history of the absorb / squeeze calls made so far
    panic,       \* "none", or the name of the assertion / unwrap that aborted
    build,       \* "debug" | "release" (integer overflow checks on / off)
    usize_bits,  \* width of usize on the target
    requested,   \* the argument n of the last create call (Option)
    created      \* the outcome of the last create call (Option)

vars == <<rev_queue, absorbing, squeezed, state, sys, calls, panic,
          build, usize_bits, requested, created>>

\* ------------------------------------------------------------------ bounds

\* longest input slice handed to one absorb call
MaxLen == 3
\* number of absorb / squeeze calls in one run
MaxCalls == 4
\* widths of usize on the two targets modelled: as wide as the field's
\* two-adicity (a 32-bit target with a field of two-adicity 32), and wider
\* by more than three bits (a 64-bit target)
NarrowBits == 4
WideBits == 8

\* --------------------------------------------------------------- constants

\* circuits::polynomials::poseidon constants imported by poseidon.rs
ROUNDS_PER_HASH == 55
ROUNDS_PER_ROW == 5
SPONGE_WIDTH == 3
RATE_SIZE == 2
\* exponent of the S-box of PlonkSpongeConstantsKimchi
PERM_SBOX == 7
\* modulus of the (scaled down) prime field F, its two-adicity (P - 1 =
\* 2^TWO_ADICITY) and a root of unity of order 2^TWO_ADICITY
P == 17
TWO_ADICITY == 4
TWO_ADIC_ROOT_OF_UNITY == 3

\* Option<T>
None == <<>>
Some(x) == <<x>>

\* ------------------------------------------------------------------- field

\* FieldVar (Constant | Var | Add): terms lists the allocated variables the
\* expression sums, in order (none for a constant); val is its witness value
FieldVarConstant(c) == [terms |-> <<>>, val |-> c]
FieldVarVar(id, val) == [terms |-> <<id>>, val |-> val]
zero == FieldVarConstant(0)
\* &a + b
FieldVarAdd(a, b) == [terms |-> a.terms \o b.terms, val |-> (a.val + b.val) % P]

\* --------------------------------------------------------- Poseidon rounds

\* ArithmeticSpongeParams: MDS matrix and round constants
poseidon_params ==
    [mds |-> << <<2, 1, 1>>, <<1, 2, 1>>, <<1, 1, 3>> >>,
     round_constants |-> [r \in 0 .. ROUNDS_PER_HASH |->
                             <<(3 * r + 1) % P, (3 * r + 2) % P, (3 * r + 3) % P>>]]

\* one row of the MDS product of the S-boxed state, plus the round constant
full_round_at(params, st, r, i) ==
    ( params.mds[i][1] * ((st[1] ^ PERM_SBOX) % P)
    + params.mds[i][2] * ((st[2] ^ PERM_SBOX) % P)
    + params.mds[i][3] * ((st[3] ^ PERM_SBOX) % P)
    + params.round_constants[r][i] ) % P

\* one full round on concrete values: S-box, MDS, round constants
full_round(params, st, r) ==
    <<full_round_at(params, st, r, 1), full_round_at(params, st, r, 2),
      full_round_at(params, st, r, 3)>>

\* RunState::compute for a [FieldVar; 3]: runs the closure on the concrete
\* values and allocates the result as three fresh variables; the call is
\* recorded in round_calls (round number, state read, state allocated)
compute(runner, elements, r, vals) ==
    [runner EXCEPT
        !.next_var = @ + SPONGE_WIDTH,
        !.round_calls = Append(@,
            [round |-> r, elements |-> elements,
             state |-> <<FieldVarVar(runner.next_var + 1, vals[1]),
                         FieldVarVar(runner.next_var + 2, vals[2]),
                         FieldVarVar(runner.next_var + 3, vals[3])>>])]

\* fn round: one unconstrained-compute call applying round number r; the
\* new state is the last entry of the runner's round_calls
round(runner, elements, r, params) ==
    compute(runner, elements, r,
            full_round(params, <<elements[1].val, elements[2].val, elements[3].val>>, r))

\* ------------------------------------------------------------ fn poseidon

\* Successors::next, after succ(item) ran on `runner`: the successor is
\* stored and the item taken is yielded, through .map(|(r, _)| r)
successors_yield(it, runner) ==
    [it |-> [it EXCEPT
                !.next = Some([state |-> runner.round_calls[Len(runner.round_calls)].state,
                               i |-> it.next[1].i + 1]),
                !.n = @ - 1,
                !.runner = runner],
     item |-> Some(it.next[1].state)]

\* std::iter::successors(first, succ).take(n): Successors::next takes the
\* stored item, stores succ(item) and only then yields the item; Take::next
\* calls it while its count is not used up
successors_next(it) ==
    IF it.n = 0 \/ it.next = None
    THEN [it |-> it, item |-> None]
    ELSE successors_yield(it, round(it.runner, it.next[1].state, it.next[1].i, it.params))

\* one chunk of .chunks(ROUNDS_PER_ROW): up to k items pulled from the
\* iterator, in order
RECURSIVE take_all(_, _, _)
RECURSIVE take_step(_, _, _)
take_step(nx, k, acc) ==
    IF nx.item = None THEN [it |-> nx.it, items |-> acc]
    ELSE take_all(nx.it, k - 1, Append(acc, nx.item[1]))
take_all(it, k, acc) ==
    IF k = 0 THEN [it |-> it, items |-> acc]
    ELSE take_step(successors_next(it), k, acc)

\* reorder_chunk emitting the chunk in the order it was pulled
reorder_chunk_in_order(c) ==
    IF Len(c) < 5 THEN [panic |-> TRUE, row |-> <<>>]
    ELSE [panic |-> FALSE, row |-> <<c[1], c[2], c[3], c[4], c[5]>>]

\* the flat_map closure on one chunk: five n() = it.next().unwrap() calls,
\* emitted as [r0, r4, r1, r2, r3]
reorder_chunk(c) ==
    IF Len(c) < 5 THEN [panic |-> TRUE, row |-> <<>>]
    ELSE [panic |-> FALSE, row |-> <<c[1], c[5], c[2], c[3], c[4]>>]

\* iter.by_ref().take(left).chunks(ROUNDS_PER_ROW).into_iter()
\*     .flat_map(..).collect_vec(): chunk after chunk is pulled and reordered
RECURSIVE chunks_flat_map(_, _, _)
RECURSIVE chunks_step(_, _, _)
RECURSIVE chunks_row(_, _, _, _)
chunks_row(it, left, acc, c) ==
    IF c.panic THEN [panic |-> TRUE, it |-> it, states |-> acc]
    ELSE chunks_flat_map(it, left, acc \o c.row)
chunks_step(pulled, left, acc) ==
    IF Len(pulled.items) = 0 THEN [panic |-> FALSE, it |-> pulled.it, states |-> acc]
    ELSE chunks_row(pulled.it, left - Len(pulled.items), acc, reorder_chunk(pulled.items))
chunks_flat_map(it, left, acc) ==
    IF left = 0 THEN [panic |-> FALSE, it |-> it, states |-> acc]
    ELSE chunks_step(take_all(it, IF left < ROUNDS_PER_ROW THEN left ELSE ROUNDS_PER_ROW,
                              <<>>),
                     left, acc)

\* hash_of reading the last state of the collected trace instead of `last`
hash_of_trace_end(states, last) == <<states[Len(states)][1], states[Len(states)][2]>>

\* the pair handed back by poseidon: let [a, b, _] = last.clone(); (a, b)
hash_of(states, last) == <<last[1], last[2]>>

\* RunState::add_constraint
add_constraint(runner, constraint, label) ==
    [runner EXCEPT !.constraints = Append(@, [constraint EXCEPT !.label = label])]

\* poseidon_emit handing the hash back without adding the constraint
poseidon_emit_unconstrained(runner, preimage, constraint, hash) ==
    [panic |-> "none",
     runner |-> [runner EXCEPT
                    !.hashes = Append(@, [preimage |-> preimage, hash |-> hash,
                                          rounds |-> runner.round_calls])],
     hash |-> hash]

\* the end of poseidon: runner.add_constraint(constraint, Some("Poseidon"), loc)
\* and the hash handed back (each finished call is recorded in the runner's
\* hashes: its preimage, the round calls it made and the pair it returned)
poseidon_emit(runner, preimage, constraint, hash) ==
    [panic |-> "none",
     runner |-> [add_constraint(runner, constraint, "Poseidon") EXCEPT
                    !.hashes = Append(@, [preimage |-> preimage, hash |-> hash,
                                          rounds |-> runner.round_calls])],
     hash |-> hash]

\* let last = iter.next().unwrap(); the hash and the constraint built from it
poseidon_last(preimage, states, lst) ==
    IF lst.item = None
    THEN [panic |-> "unwrap", runner |-> lst.it.runner, hash |-> <<zero, zero>>]
    ELSE poseidon_emit(lst.it.runner, preimage,
                       [kind |-> "Poseidon2", states |-> states,
                        last |-> lst.item[1], label |-> ""],
                       hash_of(states, lst.item[1]))

\* after let states: Vec<_> = iter.by_ref().take(ROUNDS_PER_HASH).chunks(..)..
poseidon_states(preimage, rows) ==
    IF rows.panic
    THEN [panic |-> "unwrap", runner |-> rows.it.runner, hash |-> <<zero, zero>>]
    ELSE poseidon_last(preimage, rows.states, successors_next(rows.it))

\* pub fn poseidon(runner, loc, preimage) -> (FieldVar, FieldVar)
poseidon(runner, preimage) ==
    poseidon_states(preimage,
        chunks_flat_map([next |-> Some([state |-> <<preimage[1], preimage[2], zero>>,
                                        i |-> 0]),
                         n |-> ROUNDS_PER_HASH + 1,
                         params |-> poseidon_params,
                         runner |-> [runner EXCEPT !.round_calls = <<>>,
                                                   !.permutations = @ + 1]],
                        ROUNDS_PER_HASH, <<>>))

\* ------------------------------------------------------------ DuplexState

\* RunState::poseidon
sys_poseidon(runner, preimage) == poseidon(runner, preimage)

\* DuplexState::default / DuplexState::new
DuplexState_new ==
    [rev_queue |-> <<>>, absorbing |-> TRUE, squeezed |-> None,
     state |-> <<zero, zero, zero>>]

\* permute handing poseidon the pair (state[1], state[0])
permute_swapped(self, runner) == sys_poseidon(runner, <<self.state[2], self.state[1]>>)

\* fn permute(&mut self, sys, loc) -> (FieldVar, FieldVar): self is left as
\* it is, the pair comes back to the caller
permute(self, runner) == sys_poseidon(runner, <<self.state[1], self.state[2]>>)

\* absorb_drain adding the newest pending element into state[0] and the
\* oldest into state[1]
absorb_drain_lifo(self) ==
    [self EXCEPT
        !.rev_queue = SubSeq(@, 1, Len(@) - 2),
        !.state[1] = FieldVarAdd(@, self.rev_queue[Len(self.rev_queue) - 1]),
        !.state[2] = FieldVarAdd(@, self.rev_queue[Len(self.rev_queue)])]

\* absorb, rate full: the two pops and the additions into state[0], state[1]
absorb_drain(self) ==
    [self EXCEPT
        !.rev_queue = SubSeq(@, 1, Len(@) - 2),
        !.state[1] = FieldVarAdd(@, self.rev_queue[Len(self.rev_queue)]),
        !.state[2] = FieldVarAdd(@, self.rev_queue[Len(self.rev_queue) - 1])]

\* absorb, rate full: self.permute(sys, loc.clone()); -- the pair is dropped
absorb_permuted(self, pm) == [panic |-> pm.panic, self |-> self, sys |-> pm.runner]

absorb_overflow(self, runner) == absorb_permuted(self, permute(self, runner))

\* self.rev_queue.insert(0, input.clone())
absorb_insert(r, input) ==
    IF r.panic # "none" THEN r
    ELSE [r EXCEPT !.self.rev_queue = <<input>> \o @]

\* absorb_one permuting on every input, whether or not the rate is full
absorb_one_eager(self, runner, input) ==
    IF Len(self.rev_queue) = RATE_SIZE
    THEN absorb_insert(absorb_overflow(absorb_drain(self), runner), input)
    ELSE absorb_insert(absorb_overflow(self, runner), input)

\* absorb_one queueing the input without ever draining the queue
absorb_one_unbounded(self, runner, input) ==
    absorb_insert([panic |-> "none", self |-> self, sys |-> runner], input)

\* the body of absorb's loop for one input
absorb_one(self, runner, input) ==
    IF Len(self.rev_queue) = RATE_SIZE
    THEN absorb_insert(absorb_overflow(absorb_drain(self), runner), input)
    ELSE absorb_insert([panic |-> "none", self |-> self, sys |-> runner], input)

\* for input in inputs { .. }
RECURSIVE absorb_loop(_, _)
absorb_loop(r, inputs) ==
    IF Len(inputs) = 0 \/ r.panic # "none" THEN r
    ELSE absorb_loop(absorb_one(r.self, r.sys, Head(inputs)), Tail(inputs))

\* absorb switching the mode without clearing the cached output
absorb_keeps_squeezed(self, runner, inputs) ==
    IF self.absorbing
    THEN absorb_loop([panic |-> "none", self |-> self, sys |-> runner], inputs)
    ELSE IF Len(self.rev_queue) # 0
    THEN [panic |-> "assert rev_queue.is_empty()", self |-> self, sys |-> runner]
    ELSE absorb_loop([panic |-> "none",
                      self |-> [self EXCEPT !.absorbing = TRUE],
                      sys |-> runner], inputs)

\* absorb permuting when it switches the mode
absorb_switch_permutes(self, runner, inputs) ==
    IF self.absorbing
    THEN absorb_loop([panic |-> "none", self |-> self, sys |-> runner], inputs)
    ELSE IF Len(self.rev_queue) # 0
    THEN [panic |-> "assert rev_queue.is_empty()", self |-> self, sys |-> runner]
    ELSE absorb_loop(absorb_overflow([self EXCEPT !.squeezed = None, !.absorbing = TRUE],
                                     runner), inputs)

\* absorb permuting before it returns when the inputs left the rate full
absorb_flush(r) ==
    IF r.panic # "none" \/ Len(r.self.rev_queue) < RATE_SIZE THEN r
    ELSE absorb_overflow(absorb_drain(r.self), r.sys)
absorb_flushing(self, runner, inputs) ==
    IF self.absorbing
    THEN absorb_flush(absorb_loop([panic |-> "none", self |-> self, sys |-> runner], inputs))
    ELSE IF Len(self.rev_queue) # 0
    THEN [panic |-> "assert rev_queue.is_empty()", self |-> self, sys |-> runner]
    ELSE absorb_flush(absorb_loop([panic |-> "none",
                                   self |-> [self EXCEPT !.squeezed = None, !.absorbing = TRUE],
                                   sys |-> runner], inputs))

\* pub fn absorb(&mut self, sys, loc, inputs)
absorb(self, runner, inputs) ==
    IF self.absorbing
    THEN absorb_loop([panic |-> "none", self |-> self, sys |-> runner], inputs)
    ELSE IF Len(self.rev_queue) # 0
    THEN [panic |-> "assert rev_queue.is_empty()", self |-> self, sys |-> runner]
    ELSE absorb_loop([panic |-> "none",
                      self |-> [self EXCEPT !.squeezed = None, !.absorbing = TRUE],
                      sys |-> runner], inputs)

\* squeeze, first pop: if let Some(left) = self.rev_queue.pop()
squeeze_pop_left(self) ==
    IF Len(self.rev_queue) = 0 THEN self
    ELSE [self EXCEPT !.rev_queue = SubSeq(@, 1, Len(@) - 1),
                      !.state[1] = FieldVarAdd(@, self.rev_queue[Len(self.rev_queue)])]

\* squeeze_pop_right adding the popped element into the capacity element
squeeze_pop_right_into_capacity(self) ==
    IF Len(self.rev_queue) = 0 THEN self
    ELSE [self EXCEPT !.rev_queue = SubSeq(@, 1, Len(@) - 1),
                      !.state[3] = FieldVarAdd(@, self.rev_queue[Len(self.rev_queue)])]

\* squeeze, second pop: if let Some(right) = self.rev_queue.pop()
squeeze_pop_right(self) ==
    IF Len(self.rev_queue) = 0 THEN self
    ELSE [self EXCEPT !.rev_queue = SubSeq(@, 1, Len(@) - 1),
                      !.state[2] = FieldVarAdd(@, self.rev_queue[Len(self.rev_queue)])]

\* squeeze_switch popping one pending element only
squeeze_switch_one_pop(self) ==
    [squeeze_pop_left(self) EXCEPT !.absorbing = FALSE]

\* the switch to squeezing at the head of squeeze
squeeze_switch(self) ==
    [squeeze_pop_right(squeeze_pop_left(self)) EXCEPT !.absorbing = FALSE]

\* squeeze_permuted caching the left and releasing the right
squeeze_permuted_swapped(self, pm) ==
    [panic |-> pm.panic,
     self |-> [self EXCEPT !.squeezed = Some(pm.hash[1])],
     sys |-> pm.runner,
     ret |-> Some(pm.hash[2])]

\* squeeze_permuted storing the pair into state[0], state[1] as well
squeeze_permuted_writes_back(self, pm) ==
    [panic |-> pm.panic,
     self |-> [self EXCEPT !.squeezed = Some(pm.hash[2]),
                           !.state[1] = pm.hash[1], !.state[2] = pm.hash[2]],
     sys |-> pm.runner,
     ret |-> Some(pm.hash[1])]

\* cache the right, release the left
squeeze_permuted(self, pm) ==
    [panic |-> pm.panic,
     self |-> [self EXCEPT !.squeezed = Some(pm.hash[2])],
     sys |-> pm.runner,
     ret |-> Some(pm.hash[1])]

\* squeeze once the mode is Squeezing: release the cached element, or permute
squeeze_release(self, runner) ==
    IF self.squeezed # None
    THEN [panic |-> "none", self |-> [self EXCEPT !.squeezed = None],
          sys |-> runner, ret |-> self.squeezed]
    ELSE squeeze_permuted(self, permute(self, runner))

\* pub fn squeeze(&mut self, sys, loc) -> FieldVar
squeeze(self, runner) ==
    IF ~self.absorbing THEN squeeze_release(self, runner)
    ELSE IF self.squeezed # None
    THEN [panic |-> "assert squeezed.is_none()", self |-> self, sys |-> runner,
          ret |-> None]
    ELSE squeeze_release(squeeze_switch(self), runner)

\* ------------------------------------------------------- the sponge's runs

\* the circuit's inputs x_1, x_2, ..: witness variables allocated before any
\* hashing, absorbed in this order
NumInputs == MaxCalls * MaxLen
input(k) == FieldVarVar(k, (5 * k + 3) % P)

Self == [rev_queue |-> rev_queue, absorbing |-> absorbing,
         squeezed |-> squeezed, state |-> state]

RECURSIVE absorbed_in(_)
absorbed_in(cs) == IF Len(cs) = 0 THEN 0
                   ELSE Len(cs[Len(cs)].inputs) + absorbed_in(SubSeq(cs, 1, Len(cs) - 1))

\* what a call did: its arguments, the sponge it was made on, the value it
\* handed back, the number of poseidon calls it started and of constraints it
\* added, and the poseidon calls (preimage, rounds, hash) it finished
Call(op, inputs, r) ==
    [op |-> op, inputs |-> inputs, before |-> Self,
     ret |-> IF op = "squeeze" THEN r.ret ELSE None,
     permutations |-> r.sys.permutations - sys.permutations,
     constraints |-> Len(r.sys.constraints) - Len(sys.constraints),
     hashes |-> SubSeq(r.sys.hashes, Len(sys.hashes) + 1, Len(r.sys.hashes))]

Commit(op, inputs, r) ==
    /\ rev_queue' = r.self.rev_queue
    /\ absorbing' = r.self.absorbing
    /\ squeezed' = r.self.squeezed
    /\ state' = r.self.state
    /\ sys' = r.sys
    /\ panic' = r.panic
    /\ calls' = Append(calls, Call(op, inputs, r))
    /\ UNCHANGED <<build, usize_bits, requested, created>>

Absorb ==
    /\ panic = "none"
    /\ Len(calls) < MaxCalls
    /\ \E n \in 0 .. MaxLen :
          LET fed == absorbed_in(calls)
              inputs == [k \in 1 .. n |-> input(fed + k)]
          IN Commit("absorb", inputs, absorb(Self, sys, inputs))

Squeeze ==
    /\ panic = "none"
    /\ Len(calls) < MaxCalls
    /\ Commit("squeeze", <<>>, squeeze(Self, sys))

Init ==
    /\ rev_queue = DuplexState_new.rev_queue
    /\ absorbing = DuplexState_new.absorbing
    /\ squeezed = DuplexState_new.squeezed
    /\ state = DuplexState_new.state
    /\ sys = [next_var |-> NumInputs, constraints |-> <<>>,
              round_calls |-> <<>>, permutations |-> 0, hashes |-> <<>>]
    /\ calls = <<>>
    /\ panic = "none"
    /\ build = "release"
    /\ usize_bits = WideBits
    /\ requested = None
    /\ created = None

Next == Absorb \/ Squeeze

Spec == Init /\ [][Next]_vars

\* ------------------------------------------------------ EvaluationDomains

\* usize::next_power_of_two: the smallest power of two >= n; when it does
\* not fit the debug build panics and the release build yields 0
RECURSIVE power_of_two_from(_, _)
power_of_two_from(n, p) == IF p >= n THEN p ELSE power_of_two_from(n, 2 * p)

next_power_of_two(n, bld, bits) ==
    IF power_of_two_from(n, 1) < 2 ^ bits
    THEN [panic |-> FALSE, value |-> power_of_two_from(n, 1)]
    ELSE [panic |-> bld = "debug", value |-> 0]

\* trailing_zeros of a value that is 0 or a power of two
RECURSIVE log2_of(_)
log2_of(x) == IF x <= 1 THEN 0 ELSE 1 + log2_of(x \div 2)
trailing_zeros(x, bits) == IF x = 0 THEN bits ELSE log2_of(x)

\* a * n in usize: on overflow the debug build panics, the release build wraps
usize_mul(a, n, bld, bits) ==
    IF a * n < 2 ^ bits THEN [panic |-> FALSE, value |-> a * n]
    ELSE [panic |-> bld = "debug", value |-> (a * n) % (2 ^ bits)]

\* Domain::<F>::compute_size_of_domain(n): Option<usize>, or a panic
compute_size_sized(size, bits) ==
    IF size.panic THEN [panic |-> TRUE, value |-> None]
    ELSE IF trailing_zeros(size.value, bits) > TWO_ADICITY
    THEN [panic |-> FALSE, value |-> None]
    ELSE [panic |-> FALSE, value |-> Some(size.value)]

compute_size_of_domain(n, bld, bits) ==
    compute_size_sized(next_power_of_two(n, bld, bits), bits)

\* F::get_root_of_unity(size): the two-adic root squared down to order size
get_root_of_unity(log_size) ==
    (TWO_ADIC_ROOT_OF_UNITY ^ (2 ^ (TWO_ADICITY - log_size))) % P

\* Domain::<F>::new(num_coeffs): Option<Domain>, or a panic; the size is
\* num_coeffs.next_power_of_two() as u64, and u64 is as wide as the wide usize
domain_new_sized(size) ==
    IF size.panic THEN [panic |-> TRUE, value |-> None]
    ELSE IF trailing_zeros(size.value, WideBits) > TWO_ADICITY
    THEN [panic |-> FALSE, value |-> None]
    ELSE [panic |-> FALSE,
          value |-> Some([size |-> size.value,
                          log_size_of_group |-> log2_of(size.value),
                          group_gen |-> get_root_of_unity(log2_of(size.value))])]

domain_new(num_coeffs, bld, bits) ==
    domain_new_sized(next_power_of_two(num_coeffs, bld, bits))

\* Domain::<F>::new(a * n): the product is taken in usize first
domain_new_times(m, bld, bits) ==
    IF m.panic THEN [panic |-> TRUE, value |-> None]
    ELSE domain_new(m.value, bld, bits)

\* DomainConstructionFailed naming d1 whichever construction failed
DomainConstructionFailed_d1(label, m) ==
    [kind |-> "Err", error |-> "DomainConstructionFailed", label |-> "d1", size |-> m.value]

DomainConstructionFailed(label, m) ==
    [kind |-> "Err", error |-> "DomainConstructionFailed", label |-> label, size |-> m.value]
Panicked(what) == [kind |-> "panic", what |-> what]

\* create_checked without the three assert_eq!
create_checked_unasserted(d1, d2, d4, d8) ==
    [kind |-> "Ok", d1 |-> d1, d2 |-> d2, d4 |-> d4, d8 |-> d8]

\* the three assert_eq! on the generators, then Ok(EvaluationDomains {..})
create_checked(d1, d2, d4, d8) ==
    IF (d2.group_gen * d2.group_gen) % P # d1.group_gen
    THEN Panicked("assert_eq!(d2.group_gen.square(), d1.group_gen)")
    ELSE IF (d4.group_gen * d4.group_gen) % P # d2.group_gen
    THEN Panicked("assert_eq!(d4.group_gen.square(), d2.group_gen)")
    ELSE IF (d8.group_gen * d8.group_gen) % P # d4.group_gen
    THEN Panicked("assert_eq!(d8.group_gen.square(), d4.group_gen)")
    ELSE [kind |-> "Ok", d1 |-> d1, d2 |-> d2, d4 |-> d4, d8 |-> d8]

\* let d8 = Domain::<F>::new(8 * n).ok_or(DomainConstructionFailed("d8", 8 * n))?
create_d8(d1, d2, d4, m, d8) ==
    IF m.panic \/ d8.panic THEN Panicked("overflow")
    ELSE IF d8.value = None THEN DomainConstructionFailed("d8", m)
    ELSE create_checked(d1, d2, d4, d8.value[1])

\* let d4 = Domain::<F>::new(4 * n).ok_or(DomainConstructionFailed("d4", 4 * n))?
create_d4(n, d1, d2, m, d4, bld, bits) ==
    IF m.panic \/ d4.panic THEN Panicked("overflow")
    ELSE IF d4.value = None THEN DomainConstructionFailed("d4", m)
    ELSE create_d8(d1, d2, d4.value[1], usize_mul(8, n, bld, bits),
                   domain_new_times(usize_mul(8, n, bld, bits), bld, bits))

\* let d2 = Domain::<F>::new(2 * n).ok_or(DomainConstructionFailed("d2", 2 * n))?
create_d2(n, d1, m, d2, bld, bits) ==
    IF m.panic \/ d2.panic THEN Panicked("overflow")
    ELSE IF d2.value = None THEN DomainConstructionFailed("d2", m)
    ELSE create_d4(n, d1, d2.value[1], usize_mul(4, n, bld, bits),
                   domain_new_times(usize_mul(4, n, bld, bits), bld, bits), bld, bits)

\* let d1 = Domain::<F>::new(n).ok_or(DomainConstructionFailed("d1", n))?
create_d1(n, d1, bld, bits) ==
    IF d1.panic THEN Panicked("overflow")
    ELSE IF d1.value = None
    THEN DomainConstructionFailed("d1", [panic |-> FALSE, value |-> n])
    ELSE create_d2(n, d1.value[1], usize_mul(2, n, bld, bits),
                   domain_new_times(usize_mul(2, n, bld, bits), bld, bits), bld, bits)

\* let n = Domain::<F>::compute_size_of_domain(n).ok_or(DomainSizeFailed(n))?
create_sized(n, size, bld, bits) ==
    IF size.panic THEN Panicked("overflow")
    ELSE IF size.value = None
    THEN [kind |-> "Err", error |-> "DomainSizeFailed", size |-> n]
    ELSE create_d1(size.value[1], domain_new(size.value[1], bld, bits), bld, bits)

\* pub fn create(n: usize) -> Result<Self, DomainCreationError>
create(n, bld, bits) ==
    create_sized(n, compute_size_of_domain(n, bld, bits), bld, bits)

Create ==
    \E n \in 0 .. (2 ^ usize_bits - 1) :
        /\ requested' = Some(n)
        /\ created' = Some(create(n, build, usize_bits))
        /\ UNCHANGED <<rev_queue, absorbing, squeezed, state, sys, calls, panic,
                       build, usize_bits>>

InitDomains ==
    /\ rev_queue = DuplexState_new.rev_queue
    /\ absorbing = DuplexState_new.absorbing
    /\ squeezed = DuplexState_new.squeezed
    /\ state = DuplexState_new.state
    /\ sys = [next_var |-> NumInputs, constraints |-> <<>>,
              round_calls |-> <<>>, permutations |-> 0, hashes |-> <<>>]
    /\ calls = <<>>
    /\ panic = "none"
    /\ build \in {"debug", "release"}
    /\ usize_bits \in {NarrowBits, WideBits}
    /\ requested = None
    /\ created = None

NextDomains == Create

SpecDomains == InitDomains /\ [][NextDomains]_vars

\* ------------------------------------------------------------- properties

NumCalls == Len(calls)
LastCall == calls[NumCalls]
\* calls i .. j are all squeeze calls
Squeezes(i, j) == \A m \in i .. j : calls[m].op = "squeeze"
\* call i was made on a sponge in Absorbing mode
FromAbsorbing(i) == calls[i].before.absorbing
\* permutations run by calls i .. j
RECURSIVE PermutationsIn(_, _)
PermutationsIn(i, j) ==
    IF j < i THEN 0 ELSE calls[j].permutations + PermutationsIn(i, j - 1)
\* the run is absorb calls only, then one squeeze
AbsorbsThenSqueeze ==
    /\ NumCalls >= 1
    /\ LastCall.op = "squeeze"
    /\ \A m \in 1 .. (NumCalls - 1) : calls[m].op = "absorb"
\* the absorb call that took the k-th absorbed element
CallOfInput(k) ==
    CHOOSE m \in 1 .. NumCalls :
        /\ calls[m].op = "absorb"
        /\ absorbed_in(SubSeq(calls, 1, m - 1)) < k
        /\ k <= absorbed_in(SubSeq(calls, 1, m))

\* C1: on a fresh sponge, absorbing k <= 2 elements and squeezing once runs
\* exactly one permutation (in the squeeze); absorbing 3 elements and
\* squeezing once runs exactly two: one in the absorb call that takes the
\* third element, one in the squeeze.
C1_LazyPermutationCount ==
    (panic = "none" /\ AbsorbsThenSqueeze) =>
        /\ absorbed_in(calls) <= 2 =>
              /\ sys.permutations = 1
              /\ LastCall.permutations = 1
        /\ absorbed_in(calls) = 3 =>
              /\ sys.permutations = 2
              /\ LastCall.permutations = 1
              /\ calls[CallOfInput(3)].permutations = 1

C1_Witness ==
    /\ panic = "none"
    /\ AbsorbsThenSqueeze
    /\ absorbed_in(calls) = 3
    /\ NumCalls = 3
    /\ sys.permutations = 2

\* C2: consecutive squeeze calls alternate: a squeeze that permutes returns
\* the left output, the next squeeze returns the right output without
\* permuting, the one after permutes once more; n consecutive squeezes that
\* start in Absorbing mode run ceil(n/2) permutations.
C2_SqueezeAlternation ==
    panic = "none" =>
        /\ \A i \in 1 .. NumCalls :
              (calls[i].op = "squeeze" /\ calls[i].permutations = 1) =>
                 /\ Len(calls[i].hashes) = 1
                 /\ calls[i].ret = Some(calls[i].hashes[1].hash[1])
                 /\ (i + 1 <= NumCalls /\ Squeezes(i + 1, i + 1)) =>
                       /\ calls[i + 1].permutations = 0
                       /\ calls[i + 1].ret = Some(calls[i].hashes[1].hash[2])
                 /\ (i + 2 <= NumCalls /\ Squeezes(i + 1, i + 2)) =>
                       calls[i + 2].permutations = 1
        /\ \A i \in 1 .. NumCalls : \A j \in i .. NumCalls :
              (Squeezes(i, j) /\ FromAbsorbing(i)) =>
                 PermutationsIn(i, j) = (j - i + 2) \div 2

C2_Witness ==
    /\ panic = "none"
    /\ NumCalls >= 3
    /\ Squeezes(NumCalls - 2, NumCalls)
    /\ FromAbsorbing(NumCalls - 2)
    /\ LastCall.permutations = 1
    /\ calls[NumCalls - 1].permutations = 0

\* C3: when absorb overflows the rate, the two outputs of the permutation it
\* runs are written back, so that state[0] and state[1] are those outputs
\* when the overflow step is over.
C3_OverflowWritesBack ==
    (panic = "none" /\ NumCalls >= 1 /\ LastCall.op = "absorb"
        /\ LastCall.permutations >= 1) =>
        /\ state[1] = LastCall.hashes[Len(LastCall.hashes)].hash[1]
        /\ state[2] = LastCall.hashes[Len(LastCall.hashes)].hash[2]

\* C4: the cached output is non-empty only in Squeezing mode, and exactly
\* when the last call was a squeeze that permuted; the assertion
\* squeezed.is_none() of squeeze never fails.
C4_CachedOutputOnlyWhileSqueezing ==
    /\ panic # "assert squeezed.is_none()"
    /\ panic = "none" =>
          /\ squeezed # None => ~absorbing
          /\ squeezed # None <=>
                (NumCalls >= 1 /\ LastCall.op = "squeeze" /\ LastCall.permutations = 1)

C4_Witness ==
    /\ panic = "none"
    /\ NumCalls >= 3
    /\ Squeezes(NumCalls - 2, NumCalls - 2)
    /\ calls[NumCalls - 2].permutations = 1
    /\ calls[NumCalls - 1].op = "absorb"
    /\ LastCall.op = "squeeze"
    /\ squeezed # None

\* the states r_0 .. of the k-th poseidon call: r_0 is what round 0 read,
\* r_i (i >= 1) what the i-th round call allocated
R(k, i) == IF i = 0 THEN sys.hashes[k].rounds[1].elements
           ELSE sys.hashes[k].rounds[i].state
NumRows == ROUNDS_PER_HASH \div ROUNDS_PER_ROW

\* C5: one poseidon call invokes round exactly ROUNDS_PER_HASH times, with
\* the round indices 0 .. ROUNDS_PER_HASH-1 and never an index >=
\* ROUNDS_PER_HASH.
C5_RoundsPerHash ==
    \A k \in 1 .. Len(sys.hashes) :
        /\ Len(sys.hashes[k].rounds) = ROUNDS_PER_HASH
        /\ \A m \in 1 .. Len(sys.hashes[k].rounds) :
              sys.hashes[k].rounds[m].round < ROUNDS_PER_HASH

\* C6: the trace of a poseidon call is r_0 .. r_{ROUNDS_PER_HASH-1} in chunks
\* of ROUNDS_PER_ROW, each chunk emitted as (r_{5j}, r_{5j+4}, r_{5j+1},
\* r_{5j+2}, r_{5j+3}); r_{ROUNDS_PER_HASH} is in no chunk and is the
\* constraint's `last`; no state is dropped or duplicated.
C6_RowLayout ==
    panic = "none" =>
        \A k \in 1 .. Len(sys.hashes) :
            /\ k <= Len(sys.constraints)
            /\ \A i \in 1 .. ROUNDS_PER_HASH :
                  /\ sys.hashes[k].rounds[i].round = i - 1
                  /\ sys.hashes[k].rounds[i].elements = R(k, i - 1)
            /\ Len(sys.constraints[k].states) = ROUNDS_PER_HASH
            /\ \A j \in 0 .. (NumRows - 1) :
                  /\ sys.constraints[k].states[ROUNDS_PER_ROW * j + 1] = R(k, ROUNDS_PER_ROW * j)
                  /\ sys.constraints[k].states[ROUNDS_PER_ROW * j + 2] = R(k, ROUNDS_PER_ROW * j + 4)
                  /\ sys.constraints[k].states[ROUNDS_PER_ROW * j + 3] = R(k, ROUNDS_PER_ROW * j + 1)
                  /\ sys.constraints[k].states[ROUNDS_PER_ROW * j + 4] = R(k, ROUNDS_PER_ROW * j + 2)
                  /\ sys.constraints[k].states[ROUNDS_PER_ROW * j + 5] = R(k, ROUNDS_PER_ROW * j + 3)
            /\ sys.constraints[k].last = R(k, ROUNDS_PER_HASH)
            /\ \A m \in 1 .. ROUNDS_PER_HASH :
                  sys.constraints[k].states[m] # sys.constraints[k].last
            /\ Cardinality({R(k, i) : i \in 0 .. (ROUNDS_PER_HASH - 1)}) = ROUNDS_PER_HASH
            /\ {sys.constraints[k].states[m] : m \in 1 .. ROUNDS_PER_HASH}
                   = {R(k, i) : i \in 0 .. (ROUNDS_PER_HASH - 1)}

C6_Witness ==
    /\ panic = "none"
    /\ Len(sys.constraints) >= 2
    /\ Len(sys.constraints[2].states) = ROUNDS_PER_HASH
    /\ sys.constraints[2].states[2] = R(2, 4)

\* C7: every poseidon call adds exactly one constraint, of kind Poseidon:
\* the constraints added equal the permutations run, call by call, and a
\* call that runs no permutation adds no constraint.
C7_OneConstraintPerHash ==
    panic = "none" =>
        /\ Len(sys.constraints) = sys.permutations
        /\ \A i \in 1 .. NumCalls : calls[i].constraints = calls[i].permutations
        /\ \A k \in 1 .. Len(sys.constraints) :
              /\ sys.constraints[k].kind = "Poseidon2"
              /\ sys.constraints[k].label = "Poseidon"

C7_Witness ==
    /\ panic = "none"
    /\ \E i \in 1 .. NumCalls : calls[i].permutations = 0 /\ calls[i].constraints = 0
    /\ \E i \in 1 .. NumCalls : calls[i].permutations = 2 /\ calls[i].constraints = 2

\* C8: the pair a poseidon call returns is (last[0], last[1]) of the state
\* emitted as the constraint's `last`, the state after round
\* ROUNDS_PER_HASH-1, and is taken from no intermediate state.
C8_HashIsTerminalState ==
    panic = "none" =>
        \A k \in 1 .. Len(sys.hashes) :
            /\ k <= Len(sys.constraints)
            /\ sys.hashes[k].hash =
                  <<sys.constraints[k].last[1], sys.constraints[k].last[2]>>
            /\ sys.hashes[k].hash = <<R(k, ROUNDS_PER_HASH)[1], R(k, ROUNDS_PER_HASH)[2]>>
            /\ \A i \in 0 .. (ROUNDS_PER_HASH - 1) :
                  /\ sys.hashes[k].hash[1] # R(k, i)[1]
                  /\ sys.hashes[k].hash[2] # R(k, i)[2]

C8_Witness ==
    /\ panic = "none"
    /\ NumCalls >= 1
    /\ LastCall.op = "squeeze"
    /\ LastCall.permutations = 1
    /\ LastCall.ret = Some(sys.constraints[Len(sys.constraints)].last[1])
    /\ squeezed = Some(sys.constraints[Len(sys.constraints)].last[2])

\* ---- the sponge's frame

\* the sponge as call i left it
After(i) == IF i = NumCalls THEN Self ELSE calls[i + 1].before
\* elements absorbed so far
Absorbed == absorbed_in(calls)
\* the runner as it was handed to the last call
HashesBeforeLast == Len(sys.hashes) - Len(LastCall.hashes)
SysBeforeLast ==
    [next_var |-> sys.next_var
                    - SPONGE_WIDTH * (ROUNDS_PER_HASH + 1) * LastCall.permutations,
     constraints |-> SubSeq(sys.constraints, 1,
                            Len(sys.constraints) - LastCall.constraints),
     round_calls |-> IF HashesBeforeLast = 0 THEN <<>>
                     ELSE sys.hashes[HashesBeforeLast].rounds,
     permutations |-> sys.permutations - LastCall.permutations,
     hashes |-> SubSeq(sys.hashes, 1, HashesBeforeLast)]
\* the last call's first p inputs, absorbed on their own
AbsorbPrefix(p) ==
    absorb(LastCall.before, SysBeforeLast, SubSeq(LastCall.inputs, 1, p))
\* absorb(ys) on the outcome of an absorb
AbsorbNext(r, ys) == absorb(r.self, r.sys, ys)

\* C12: absorb and squeeze never write the capacity element state[2]: a call
\* that runs no permutation leaves it as it was, and no drained input is ever
\* added into it.
C12_CapacityNotWritten ==
    panic = "none" =>
        /\ \A i \in 1 .. NumCalls :
              calls[i].permutations = 0 => After(i).state[3] = calls[i].before.state[3]
        /\ \A j \in 1 .. Len(state[3].terms) : state[3].terms[j] > NumInputs

C12_Witness ==
    /\ panic = "none"
    /\ NumCalls >= 2
    /\ \E i \in 1 .. NumCalls : calls[i].op = "absorb" /\ calls[i].permutations >= 1
    /\ LastCall.op = "squeeze"
    /\ Len(LastCall.before.rev_queue) = 2
    /\ Len(state[1].terms) >= 2
    /\ Len(state[2].terms) >= 2

\* C13: the pending queue never holds more than RATE_SIZE elements, between
\* calls (before and after each of them) and after each input processed
\* inside absorb.
C13_QueueBounded ==
    /\ Len(rev_queue) <= RATE_SIZE
    /\ \A i \in 1 .. NumCalls : Len(calls[i].before.rev_queue) <= RATE_SIZE
    /\ (panic = "none" /\ NumCalls >= 1 /\ LastCall.op = "absorb") =>
          \A p \in 1 .. (Len(LastCall.inputs) - 1) :
              Len(AbsorbPrefix(p).self.rev_queue) <= RATE_SIZE

C13_Witness ==
    /\ panic = "none"
    /\ NumCalls >= 1
    /\ LastCall.op = "absorb"
    /\ Len(LastCall.before.rev_queue) = RATE_SIZE
    /\ Len(LastCall.inputs) = 3
    /\ LastCall.permutations = 2
    /\ Len(rev_queue) = 1

\* C14: in Squeezing mode the pending queue is empty, and the assertion
\* rev_queue.is_empty() of absorb never fails.
C14_QueueEmptyWhileSqueezing ==
    /\ panic # "assert rev_queue.is_empty()"
    /\ ~absorbing => rev_queue = <<>>

C14_Witness ==
    /\ panic = "none"
    /\ NumCalls >= 2
    /\ calls[NumCalls - 1].op = "squeeze"
    /\ Len(calls[NumCalls - 1].before.rev_queue) = RATE_SIZE
    /\ LastCall.op = "absorb"
    /\ ~LastCall.before.absorbing
    /\ Len(LastCall.inputs) >= 1

\* C15: pending inputs are drained in arrival order: the queue holds the
\* latest absorbed elements, most recent first; every other absorbed element
\* was added exactly once into state[0] or state[1], in arrival order, each
\* element of state[1] right after its pair in state[0]; a squeeze adds the
\* oldest pending element into state[0] and the next one, if any, into
\* state[1].
C15_FifoDrain ==
    panic = "none" =>
        /\ \A j \in 1 .. Len(rev_queue) : rev_queue[j] = input(Absorbed - j + 1)
        /\ \A j \in 1 .. (Len(state[1].terms) - 1) :
              state[1].terms[j] < state[1].terms[j + 1]
        /\ \A j \in 1 .. (Len(state[2].terms) - 1) :
              state[2].terms[j] < state[2].terms[j + 1]
        /\ Len(state[1].terms) + Len(state[2].terms) = Absorbed - Len(rev_queue)
        /\ {state[1].terms[j] : j \in 1 .. Len(state[1].terms)}
              \cup {state[2].terms[j] : j \in 1 .. Len(state[2].terms)}
              = 1 .. (Absorbed - Len(rev_queue))
        /\ \A j \in 1 .. Len(state[2].terms) :
              \E k \in 1 .. Len(state[1].terms) :
                  state[1].terms[k] = state[2].terms[j] - 1
        /\ (NumCalls >= 1 /\ LastCall.op = "squeeze"
                /\ Len(LastCall.before.rev_queue) = 1) =>
              /\ state[1] = FieldVarAdd(LastCall.before.state[1],
                                        LastCall.before.rev_queue[1])
              /\ state[2] = LastCall.before.state[2]
        /\ (NumCalls >= 1 /\ LastCall.op = "squeeze"
                /\ Len(LastCall.before.rev_queue) = 2) =>
              /\ state[1] = FieldVarAdd(LastCall.before.state[1],
                                        LastCall.before.rev_queue[2])
              /\ state[2] = FieldVarAdd(LastCall.before.state[2],
                                        LastCall.before.rev_queue[1])

C15_Witness ==
    /\ panic = "none"
    /\ Len(state[2].terms) >= 1
    /\ \E k \in 1 .. (Len(state[1].terms) - 1) :
          state[1].terms[k + 1] = state[1].terms[k] + 1
    /\ Len(rev_queue) = 1

\* C16: every poseidon call starts from [state[0], state[1], zero]: the
\* state round 0 reads, which is also the first state of the trace, has the
\* sponge's pair in positions 0 and 1 and the constant zero in position 2,
\* however many permutations ran before.
C16_InitialState ==
    panic = "none" =>
        /\ \A k \in 1 .. Len(sys.hashes) :
              /\ R(k, 0) = <<sys.hashes[k].preimage[1], sys.hashes[k].preimage[2], zero>>
              /\ sys.constraints[k].states[1] = R(k, 0)
        /\ \A i \in 1 .. NumCalls :
              Len(calls[i].hashes) >= 1 =>
                 calls[i].hashes[Len(calls[i].hashes)].preimage
                    = <<After(i).state[1], After(i).state[2]>>

C16_Witness ==
    /\ panic = "none"
    /\ Len(sys.hashes) >= 3
    /\ sys.hashes[3].preimage[1] # zero
    /\ sys.hashes[3].preimage[2] # zero
    /\ sys.hashes[3].preimage[1] # sys.hashes[3].preimage[2]
    /\ R(3, 0)[3] = zero

\* C17: an absorb call made in Squeezing mode switches to Absorbing and
\* clears the cached output; the switch runs no permutation (the call runs
\* only those of its own overflows); a cached output it discards is returned
\* by no later squeeze.
C17_AbsorbSwitch ==
    panic = "none" =>
        /\ \A i \in 1 .. NumCalls :
              (calls[i].op = "absorb" /\ ~calls[i].before.absorbing) =>
                 /\ After(i).absorbing
                 /\ After(i).squeezed = None
                 /\ calls[i].permutations =
                       IF Len(calls[i].inputs) = 0 THEN 0
                       ELSE (Len(calls[i].inputs) - 1) \div RATE_SIZE
        /\ \A i \in 1 .. NumCalls : \A j \in (i + 1) .. NumCalls :
              (calls[i].op = "absorb" /\ calls[i].before.squeezed # None
                  /\ calls[j].op = "squeeze") =>
                 calls[j].ret # calls[i].before.squeezed

C17_Witness ==
    /\ panic = "none"
    /\ NumCalls >= 3
    /\ calls[NumCalls - 1].op = "absorb"
    /\ calls[NumCalls - 1].inputs = <<>>
    /\ calls[NumCalls - 1].before.squeezed # None
    /\ LastCall.op = "squeeze"
    /\ LastCall.permutations = 1

\* C19: absorbing is independent of the batching: absorb(xs ++ ys) leaves
\* the sponge and the runner (permutations, their inputs, constraints) as
\* absorb(xs) followed by absorb(ys) does, for every split of the inputs; on
\* a fresh sponge, absorbing k >= 1 elements over any number of calls runs
\* floor((k-1)/2) permutations.
C19_BatchingIndependent ==
    panic = "none" =>
        /\ (NumCalls >= 1 /\ LastCall.op = "absorb") =>
              \A p \in 0 .. Len(LastCall.inputs) :
                  AbsorbNext(AbsorbPrefix(p),
                             SubSeq(LastCall.inputs, p + 1, Len(LastCall.inputs)))
                     = [panic |-> "none", self |-> Self, sys |-> sys]
        /\ (\A i \in 1 .. NumCalls : calls[i].op = "absorb") =>
              sys.permutations =
                 IF Absorbed = 0 THEN 0 ELSE (Absorbed - 1) \div RATE_SIZE

C19_Witness ==
    /\ panic = "none"
    /\ NumCalls >= 2
    /\ \A i \in 1 .. NumCalls : calls[i].op = "absorb"
    /\ Len(LastCall.inputs) = 3
    /\ LastCall.permutations = 2
    /\ Absorbed = 5

\* C20: a squeeze made in Squeezing mode leaves the state array as it is:
\* over consecutive squeeze calls state[0], state[1], state[2] keep the
\* values they had after the drain, and every permutation of the run is
\* invoked on the same pair.
C20_SqueezeKeepsState ==
    panic = "none" =>
        /\ \A i \in 1 .. NumCalls :
              (calls[i].op = "squeeze" /\ ~calls[i].before.absorbing) =>
                 After(i).state = calls[i].before.state
        /\ \A i \in 1 .. NumCalls : \A j \in i .. NumCalls :
              Squeezes(i, j) =>
                 /\ After(j).state = After(i).state
                 /\ (Len(calls[i].hashes) = 1 /\ Len(calls[j].hashes) = 1) =>
                       /\ calls[j].hashes[1].preimage = calls[i].hashes[1].preimage
                       /\ calls[j].hashes[1].preimage
                             = <<After(i).state[1], After(i).state[2]>>

C20_Witness ==
    /\ panic = "none"
    /\ NumCalls = 4
    /\ calls[1].op = "absorb"
    /\ Len(calls[1].inputs) = 2
    /\ Squeezes(2, 4)
    /\ calls[4].permutations = 1
    /\ calls[4].hashes[1].preimage = calls[2].hashes[1].preimage
    /\ calls[4].ret # calls[2].ret

\* ---- create

\* the mathematical next power of two of the requested n, and whether a
\* domain of a given size exists in the field
BaseSize == power_of_two_from(requested[1], 1)
Supported(size) == log2_of(size) <= TWO_ADICITY

\* C9: when create(n) is Ok, d1.size is the smallest power of two >= n the
\* field admits, and d2, d4, d8 have 2, 4 and 8 times that size.
C9_DomainSizes ==
    (created # None /\ created[1].kind = "Ok") =>
        /\ created[1].d1.size = BaseSize
        /\ created[1].d1.size >= requested[1]
        /\ Supported(created[1].d1.size)
        /\ created[1].d2.size = 2 * created[1].d1.size
        /\ created[1].d4.size = 4 * created[1].d1.size
        /\ created[1].d8.size = 8 * created[1].d1.size

\* C10: when one of the sizes n', 2n', 4n', 8n' is not supported by the
\* field, create(n) returns Err; create never panics, whether from the size
\* arithmetic or from the generator assertions.
C10_UnsupportedSizeIsErr ==
    created # None =>
        /\ created[1].kind # "panic"
        /\ ~Supported(8 * BaseSize) => created[1].kind = "Err"

\* b^e in the field
RECURSIVE PowMod(_, _)
PowMod(b, e) == IF e = 0 THEN 1 ELSE (b * PowMod(b, e - 1)) % P

\* the base size create computed, and the domain it builds for a times it
SizedBase == compute_size_of_domain(requested[1], build, usize_bits)
Built(a) ==
    IF a = 1 THEN domain_new(SizedBase.value[1], build, usize_bits)
    ELSE domain_new_times(usize_mul(a, SizedBase.value[1], build, usize_bits),
                          build, usize_bits)
\* all four domains were built
AllBuilt ==
    /\ ~SizedBase.panic
    /\ SizedBase.value # None
    /\ \A a \in {1, 2, 4, 8} : ~Built(a).panic /\ Built(a).value # None
\* g is the square of h
SquareOf(g, h) == g = (h * h) % P
\* the generators of the four domains built are not a squaring chain
ChainBroken ==
    /\ AllBuilt
    /\ \/ ~SquareOf(Built(1).value[1].group_gen, Built(2).value[1].group_gen)
       \/ ~SquareOf(Built(2).value[1].group_gen, Built(4).value[1].group_gen)
       \/ ~SquareOf(Built(4).value[1].group_gen, Built(8).value[1].group_gen)

\* C11: when create is Ok the generators are a squaring chain (d2.gen^2 =
\* d1.gen, d4.gen^2 = d2.gen, d8.gen^2 = d4.gen, hence d4.gen^4 = d8.gen^8 =
\* d1.gen) and each generator to the power of its domain's size is 1; when
\* the four domains built break the chain, create aborts in an assertion and
\* returns neither Ok nor Err.
C11_GeneratorChain ==
    created # None =>
        /\ created[1].kind = "Ok" =>
              /\ SquareOf(created[1].d1.group_gen, created[1].d2.group_gen)
              /\ SquareOf(created[1].d2.group_gen, created[1].d4.group_gen)
              /\ SquareOf(created[1].d4.group_gen, created[1].d8.group_gen)
              /\ PowMod(created[1].d4.group_gen, 4) = created[1].d1.group_gen
              /\ PowMod(created[1].d8.group_gen, 8) = created[1].d1.group_gen
              /\ PowMod(created[1].d1.group_gen, created[1].d1.size) = 1
              /\ PowMod(created[1].d2.group_gen, created[1].d2.size) = 1
              /\ PowMod(created[1].d4.group_gen, created[1].d4.size) = 1
              /\ PowMod(created[1].d8.group_gen, created[1].d8.size) = 1
        /\ ChainBroken =>
              /\ created[1].kind = "panic"
              /\ created[1].what # "overflow"

C11_Witness ==
    /\ created # None
    /\ created[1].kind = "Ok"
    /\ created[1].d1.size = 2
    /\ created[1].d8.size = 16
    /\ created[1].d8.group_gen = TWO_ADIC_ROOT_OF_UNITY
    /\ created[1].d1.group_gen # 1

\* the multiple of the base size a label stands for
Factor(label) ==
    CASE label = "d1" -> 1 [] label = "d2" -> 2 [] label = "d4" -> 4 [] label = "d8" -> 8

\* C18: when create(n) is Err, the error names the first failing step in
\* the order size, d1, d2, d4, d8: DomainSizeFailed carries the requested n
\* when no base size is admissible; otherwise DomainConstructionFailed
\* carries the label and the size (n', 2n', 4n', 8n') of the first domain
\* the field does not support.
C18_FirstFailingStep ==
    (created # None /\ created[1].kind = "Err") =>
        \/ /\ created[1].error = "DomainSizeFailed"
           /\ created[1].size = requested[1]
           /\ ~Supported(BaseSize)
        \/ /\ created[1].error = "DomainConstructionFailed"
           /\ created[1].label \in {"d1", "d2", "d4", "d8"}
           /\ Supported(BaseSize)
           /\ created[1].size = Factor(created[1].label) * BaseSize
           /\ ~Supported(created[1].size)
           /\ \A a \in {1, 2, 4, 8} :
                 a < Factor(created[1].label) => Supported(a * BaseSize)

C18_Witness ==
    /\ created # None
    /\ created[1].kind = "Err"
    /\ created[1].error = "DomainConstructionFailed"
    /\ created[1].label = "d4"
    /\ requested[1] = 7
    /\ created[1].size = 32

====
